---- MODULE Spec2Model ----
(***************************************************************************)
(* The thinking-timeline chat page (src/unnamed/part_000, ChatApp) as a    *)
(* state machine.                                                          *)
(*                                                                         *)
(* React state (useState) and refs (useRef) are separate variables.  The   *)
(* envelope handler registered with the transport reads only the refs and  *)
(* queues state updates; the updates of one handler are applied in the     *)
(* order they were queued, so the state variables hold the state the next  *)
(* render shows.  The refs follow the state only when the useEffect        *)
(* callbacks of lines 92-106 run, which is a step of its own               *)
(* (FlushEffects): after an update that no user interaction caused (a      *)
(* received envelope, a resolved fetch) React runs the effects in a later  *)
(* task, and further envelopes can be handled before it.  A render caused  *)
(* by a click or a key press is committed, and its effects are run, before *)
(* the next task, so handleSendMessage leaves the refs equal to the state. *)
(*                                                                         *)
(* The transport (src/lib/websocket.ts, WebSocketService) is a second      *)
(* state machine over its own variables: Spec runs the page with the       *)
(* transport connected and left alone, TransportSpec runs the transport    *)
(* from before the first getInstance call with the page left alone.        *)
(***************************************************************************)
EXTENDS Integers, Sequences, FiniteSets, TLC

\* ------------------------------------------------------------------ bounds
MaxRequests == 2
MaxEnvelopes == 2

\* --------------------------------------------------------------- constants
\* null / undefined, for ids and times (ids and the clock start at 1)
Null == 0
\* null sessionId / null error
NoSession == "null"
NoError == "null"
\* no text returned yet
NoText == ""

\* the text of the input box: blank, or a prompt
Inputs == {" ", "hi"}
\* envelope payloads (message.content): a generic text, and a tool-use text in
\* capitals
Payloads == {"p1", "USING TOOL: grep"}
\* the fixed marker a deep-thinking step starts with (the text of line 263)
DeepMarker == "<Deep Thinking>"
\* sessionIds the backend may return
SessionIds == {"s1"}

\* MessageType values the handler tells apart (part_000:146,203,226)
CHAT == "chat"
THINKING == "thinking"
DEEP_THINKING == "deep_thinking"
EnvelopeTypes == {CHAT, THINKING, DEEP_THINKING}

\* what the POST /api/chat/message call can come back with
Responses ==
  {[ok |-> TRUE, success |-> TRUE, sessionId |-> s, error |-> NoError, threw |-> FALSE]
      : s \in SessionIds \cup {NoSession}}
  \cup {[ok |-> FALSE, success |-> FALSE, sessionId |-> NoSession, error |-> NoError, threw |-> FALSE],
        [ok |-> TRUE, success |-> FALSE, sessionId |-> NoSession, error |-> "E", threw |-> FALSE],
        [ok |-> FALSE, success |-> FALSE, sessionId |-> NoSession, error |-> "Failed to fetch", threw |-> TRUE]}

\* ---- the transport (src/lib/websocket.ts)
\* maxReconnectAttempts (websocket.ts:20)
maxReconnectAttempts == 5
\* WebSocket.readyState of a socket the transport created
CONNECTING == "connecting"
OPEN == "open"
CLOSED == "closed"
\* event.data of a received frame: text that is not JSON, the JSON text null,
\* or the JSON text of an envelope object
Malformed == "not json"
NullJson == "null"
EnvelopeJson == "envelope"
Frames == {Malformed, NullJson, EnvelopeJson}
\* sockets the transport may create, frames it may receive and handler
\* functions that may be created, in one behaviour
MaxSockets == 7
MaxFrames == 2
MaxHandlers == 2

VARIABLES
  \* useState (part_000:53-61)
  messages, isLoading, error, sessionId, thinkingMessages, currentMessageId,
  thinkingCollapsedStates, thinkingTimers,
  \* useRef (part_000:64-69)
  thinkingMessagesRef, currentMessageIdRef, sessionIdRef, thinkingTimersRef,
  thinkingMessageCounterRef, messageCounterRef,
  \* fetch calls awaiting their response, the clock, and whether a render threw
  inflight, now, crashed,
  \* the live ThinkingCard's currentTime (part_000:355); Null while no live
  \* card is mounted
  currentTime,
  \* history: the session registered last, the last envelope handled or request
  \* begun (with whether a session was live, and collapsed, before it), counters
  sess, last, nEnv, nReq,
  \* the transport (src/lib/websocket.ts:17-22): whether the singleton exists,
  \* every WebSocket it created (readyState, oldest first), which of them this.ws
  \* is, the retry counter, the pending setTimeout callbacks and the handler list
  instance, sockets, ws, reconnectAttempts, reconnectTimer, messageHandlers,
  \* transport history: handler functions created so far, the frames received,
  \* the handlers called for the last of them (in call order), the close events
  \* since the last open event, and the last transport operation
  nHandlers, received, invoked, closes, wsLast,
  \* formatDuration (part_000:78-89): startTime, endTime (Null when the caller
  \* passes none), what new Date() gives, and the text returned (NoText
  \* before the call)
  fmtStartTime, fmtEndTime, fmtClock, fmtText,
  \* the basic page (src/app/page.tsx:33-37): useState messages, isLoading,
  \* error, sessionId; the sessionId the envelope handler closed over when the
  \* mount effect registered it (page.tsx:42-66); fetch calls awaiting their
  \* response; counters of requests begun and envelopes handled
  basicMessages, basicIsLoading, basicError, basicSessionId, basicHandlerSessionId,
  basicInflight, basicReq, basicEnv,
  \* ChatBox (src/components/chat-box.tsx:26-34): useState messages, the
  \* accumulator ref, the setMessages updaters queued and not yet run (each is
  \* the answer it closed over), and history: the chunks received since the last
  \* answer, the messages the envelopes handled so far stand for, and a counter
  \* of envelopes handled
  boxMessages, deepThinkingContentRef, boxQueue, boxChunks, boxExpected, boxEnv

stateVars == <<messages, isLoading, error, sessionId, thinkingMessages, currentMessageId,
               thinkingCollapsedStates, thinkingTimers>>
refVars == <<thinkingMessagesRef, currentMessageIdRef, sessionIdRef, thinkingTimersRef,
             thinkingMessageCounterRef, messageCounterRef>>
pageVars == <<stateVars, refVars, inflight, now, crashed, currentTime, sess, last, nEnv, nReq>>
wsVars == <<instance, sockets, ws, reconnectAttempts, reconnectTimer, messageHandlers,
            nHandlers, received, invoked, closes, wsLast>>
\* a call of formatDuration: its arguments, the clock and the text it returned
fmtVars == <<fmtStartTime, fmtEndTime, fmtClock, fmtText>>
\* the state of the basic page (src/app/page.tsx) and of ChatBox
\* (src/components/chat-box.tsx)
basicVars == <<basicMessages, basicIsLoading, basicError, basicSessionId,
               basicHandlerSessionId, basicInflight, basicReq, basicEnv>>
chatBoxVars == <<boxMessages, deepThinkingContentRef, boxQueue, boxChunks, boxExpected, boxEnv>>
otherPages == <<basicVars, chatBoxVars>>
vars == <<pageVars, wsVars, fmtVars, otherPages>>

\* --------------------------------------------------------------- helpers
EmptyMap == [k \in {} |-> Null]
\* { ...prev, [k]: v }
Put(f, k, v) == [x \in DOMAIN f \cup {k} |-> IF x = k THEN v ELSE f[x]]
\* f[k], undefined when absent
Get(f, k, dflt) == IF k \in DOMAIN f THEN f[k] ELSE dflt
Last(s) == s[Len(s)]

\* String.prototype.trim on the modelled inputs
Trim(text) == IF text = " " THEN "" ELSE text

\* content.includes(<the Deep Thinking marker>): a content is the sequence of
\* the pieces it was concatenated from
HasDeepMarker(content) == \E i \in 1..Len(content) : content[i] = DeepMarker

\* findIndex(msg => msg.content.includes(marker)), 1-based, 0 for -1
FindDeepIndex(steps) ==
  IF \E i \in 1..Len(steps) : HasDeepMarker(steps[i].content)
    THEN CHOOSE i \in 1..Len(steps) :
           /\ HasDeepMarker(steps[i].content)
           /\ \A j \in 1..(i - 1) : ~HasDeepMarker(steps[j].content)
    ELSE 0

NoTimer == [startTime |-> Null, endTime |-> Null]

NoSess == [id |-> Null, events |-> <<>>, answered |-> FALSE, toggled |-> FALSE]
Live == sess.id # Null /\ ~sess.answered

\* the page before any interaction
PageInit ==
  /\ messages = <<>>
  /\ isLoading = FALSE
  /\ error = NoError
  /\ sessionId = NoSession
  /\ thinkingMessages = <<>>
  /\ currentMessageId = Null
  /\ thinkingCollapsedStates = EmptyMap
  /\ thinkingTimers = EmptyMap
  /\ thinkingMessagesRef = <<>>
  /\ currentMessageIdRef = Null
  /\ sessionIdRef = NoSession
  /\ thinkingTimersRef = EmptyMap
  /\ thinkingMessageCounterRef = 0
  /\ messageCounterRef = 0
  /\ inflight = {}
  /\ now = 1
  /\ crashed = FALSE
  /\ currentTime = Null
  /\ sess = NoSess
  /\ last = [op |-> "init", arg |-> "", live |-> FALSE, collapsed |-> FALSE]
  /\ nEnv = 0
  /\ nReq = 0

\* the transport before the first getInstance call
WsFresh ==
  /\ instance = FALSE
  /\ sockets = <<>>
  /\ ws = Null
  /\ reconnectAttempts = 0
  /\ reconnectTimer = 0
  /\ messageHandlers = <<>>
  /\ nHandlers = 0
  /\ received = <<>>
  /\ invoked = <<>>
  /\ closes = 0
  /\ wsLast = [op |-> "none", arg |-> 0]

\* the transport once the page's mount effect (part_000:140-145) has run and
\* the connection is open: one socket, the page's handler registered
WsMounted ==
  /\ instance = TRUE
  /\ sockets = <<OPEN>>
  /\ ws = 1
  /\ reconnectAttempts = 0
  /\ reconnectTimer = 0
  /\ messageHandlers = <<1>>
  /\ nHandlers = 1
  /\ received = <<>>
  /\ invoked = <<>>
  /\ closes = 0
  /\ wsLast = [op |-> "onopen", arg |-> 1]

\* no call of formatDuration yet
FmtIdle ==
  /\ fmtStartTime = Null
  /\ fmtEndTime = Null
  /\ fmtClock = Null
  /\ fmtText = NoText

\* the basic page before any interaction, its handler registered by the mount
\* effect
BasicInit ==
  /\ basicMessages = <<>>
  /\ basicIsLoading = FALSE
  /\ basicError = NoError
  /\ basicSessionId = NoSession
  /\ basicHandlerSessionId = NoSession
  /\ basicInflight = {}
  /\ basicReq = 0
  /\ basicEnv = 0

\* ChatBox before any envelope
ChatBoxInit ==
  /\ boxMessages = <<>>
  /\ deepThinkingContentRef = <<>>
  /\ boxQueue = <<>>
  /\ boxChunks = <<>>
  /\ boxExpected = <<>>
  /\ boxEnv = 0

OtherPagesInit == BasicInit /\ ChatBoxInit

Init == PageInit /\ WsMounted /\ FmtIdle /\ OtherPagesInit

\* ------------------------------------------------------------- operations

\* useEffect callbacks keeping the refs in sync with the state
FlushEffects ==
  /\ ~crashed
  /\ <<thinkingMessagesRef, currentMessageIdRef, sessionIdRef, thinkingTimersRef>>
       # <<thinkingMessages, currentMessageId, sessionId, thinkingTimers>>
  /\ thinkingMessagesRef' = thinkingMessages
  /\ currentMessageIdRef' = currentMessageId
  /\ sessionIdRef' = sessionId
  /\ thinkingTimersRef' = thinkingTimers
  /\ UNCHANGED <<last, stateVars, thinkingMessageCounterRef, messageCounterRef,
                 inflight, now, crashed, currentTime, sess, nEnv, nReq, wsVars, fmtVars, otherPages>>

\* generateUniqueId (the id is `${Date.now()}-${counter}`: the counter alone
\* tells two ids apart, and is the id here)
GenerateUniqueId(counter) == counter + 1

\* the Message objects of lines 280-286 and 177-188
UserMessage(id, text, at, sid) ==
  [id |-> id, content |-> text, sender |-> "user", timestamp |-> at, sessionId |-> sid,
   status |-> "none", thinkingMessages |-> <<>>, showThinking |-> FALSE,
   thinkingStartTime |-> Null, thinkingEndTime |-> Null]

\* AiMessage with the envelope's content dropped
AiMessageNoContent(id, text, at, sid, steps, startTime, endTime) ==
  [id |-> id, content |-> "", sender |-> "ai", timestamp |-> at, sessionId |-> sid,
   status |-> "complete", thinkingMessages |-> steps, showThinking |-> Len(steps) > 0,
   thinkingStartTime |-> startTime, thinkingEndTime |-> endTime]

\* AiMessage with thinkingEndTime set only when the timer was started
AiMessageEndOnlyWithStart(id, text, at, sid, steps, startTime, endTime) ==
  [id |-> id, content |-> text, sender |-> "ai", timestamp |-> at, sessionId |-> sid,
   status |-> "complete", thinkingMessages |-> steps, showThinking |-> Len(steps) > 0,
   thinkingStartTime |-> startTime,
   thinkingEndTime |-> IF startTime # Null THEN endTime ELSE Null]

AiMessage(id, text, at, sid, steps, startTime, endTime) ==
  [id |-> id, content |-> text, sender |-> "ai", timestamp |-> at, sessionId |-> sid,
   status |-> "complete", thinkingMessages |-> steps, showThinking |-> Len(steps) > 0,
   thinkingStartTime |-> startTime, thinkingEndTime |-> endTime]

\* the ThinkingMessage objects of lines 220-224 and 261-265
\* a step that loses its content
ThinkingMessageBlank(n, content, at) == [id |-> n, content |-> <<>>, timestamp |-> at]

ThinkingMessage(n, content, at) == [id |-> n, content |-> content, timestamp |-> at]

\* setMessages(prev => [...prev, message]) (lines 190 and 288)
\* an append that overwrites the last message when it has the same sender
AppendMessageOverLast(prev, message) ==
  IF prev # <<>> /\ Last(prev).sender = message.sender
    THEN [prev EXCEPT ![Len(prev)] = message]
    ELSE Append(prev, message)

AppendMessage(prev, message) == Append(prev, message)

\* handleSendMessage up to the fetch call; the render it causes is committed and
\* its effects are run before the next task
HandleSendMessage(text) ==
  /\ ~crashed
  /\ UNCHANGED <<wsVars, fmtVars, otherPages>>
  /\ IF Trim(text) = "" \/ isLoading
       THEN /\ UNCHANGED <<last, stateVars, refVars, inflight, now, crashed, currentTime, sess, nEnv, nReq>>
       ELSE /\ nReq < MaxRequests
            /\ LET userId == GenerateUniqueId(messageCounterRef)
                   newMessageId == GenerateUniqueId(userId)
               IN /\ messages' = AppendMessage(messages, UserMessage(userId, Trim(text), now, sessionId))
                  /\ isLoading' = TRUE
                  /\ error' = NoError
                  /\ thinkingMessages' = <<>>
                  /\ currentMessageId' = newMessageId
                  /\ messageCounterRef' = newMessageId
                  /\ inflight' = inflight \cup
                       {[id |-> userId, message |-> Trim(text), sessionId |-> sessionId]}
                  /\ thinkingMessagesRef' = <<>>
                  /\ currentMessageIdRef' = newMessageId
                  /\ sessionIdRef' = sessionId
                  /\ thinkingTimersRef' = thinkingTimers
                  /\ sess' = [id |-> newMessageId, events |-> <<>>,
                              answered |-> FALSE, toggled |-> FALSE]
            /\ last' = [op |-> "send", arg |-> "accepted", live |-> Live, collapsed |-> FALSE]
            /\ now' = now + 1
            /\ nReq' = nReq + 1
            /\ currentTime' = Null
            /\ UNCHANGED <<sessionId, thinkingCollapsedStates, thinkingTimers,
                           thinkingMessageCounterRef, crashed, nEnv>>

\* the message of the Error the try block throws (lines 312-327)
\* a failure that stores no error
ErrorMessageNone(resp) == NoError

ErrorMessage(resp) ==
  IF resp.threw THEN resp.error
  ELSE IF ~resp.ok
    THEN (IF resp.error # NoError THEN resp.error ELSE "Failed to send message")
    ELSE (IF resp.error # NoError THEN resp.error ELSE "Unknown error")

\* "if (data.data.sessionId) setSessionId(data.data.sessionId)" (lines 316-318)
\* a store that keeps the first sessionId it was given
SessionIdKeepsFirst(prev, resp) ==
  IF prev = NoSession /\ resp.sessionId # NoSession THEN resp.sessionId ELSE prev

SessionIdAfter(prev, resp) ==
  IF resp.sessionId # NoSession THEN resp.sessionId ELSE prev

\* handleSendMessage from the resolution of the fetch call to its end
HttpResolve(req, resp) ==
  /\ ~crashed
  /\ req \in inflight
  /\ inflight' = inflight \ {req}
  /\ IF ~resp.threw /\ resp.ok /\ resp.success
       THEN /\ sessionId' = SessionIdAfter(sessionId, resp)
            /\ error' = error
       ELSE /\ error' = ErrorMessage(resp)
            /\ sessionId' = sessionId
  /\ isLoading' = FALSE
  /\ currentTime' = Null
  /\ UNCHANGED <<last, messages, thinkingMessages, currentMessageId, thinkingCollapsedStates,
                 thinkingTimers, refVars, now, crashed, sess, nEnv, nReq, wsVars, fmtVars, otherPages>>

\* "Auto-collapse the thinking card for this message when AI response is
\* complete" (lines 196-202)
\* AutoCollapse that leaves the flag as the user set it
AutoCollapseKeepsFlag(states, currentMsgId, currentThinking) ==
  IF currentMsgId # Null /\ Len(currentThinking) > 0 /\ currentMsgId \notin DOMAIN states
    THEN Put(states, currentMsgId, TRUE)
    ELSE states

AutoCollapse(states, currentMsgId, currentThinking) ==
  IF currentMsgId # Null /\ Len(currentThinking) > 0
    THEN Put(states, currentMsgId, TRUE)
    ELSE states

\* the CHAT branch of the envelope handler
HandleChat(content) ==
  LET currentThinking == thinkingMessagesRef
      currentMsgId == currentMessageIdRef
      currentSessionId == sessionIdRef
      endTime == now
      hasTimer == currentMsgId # Null /\ currentMsgId \in DOMAIN thinkingTimersRef
      finalTimerData ==
        IF hasTimer THEN [thinkingTimersRef[currentMsgId] EXCEPT !.endTime = endTime]
                    ELSE NoTimer
      newId == IF currentMsgId # Null THEN currentMsgId
                                      ELSE GenerateUniqueId(messageCounterRef)
      aiMessage == AiMessage(newId, content, now, currentSessionId, currentThinking,
                             finalTimerData.startTime, endTime)
  IN /\ thinkingTimersRef' = IF hasTimer THEN Put(thinkingTimersRef, currentMsgId, finalTimerData)
                                         ELSE thinkingTimersRef
     /\ thinkingTimers' = IF hasTimer THEN Put(thinkingTimers, currentMsgId, finalTimerData)
                                      ELSE thinkingTimers
     /\ messageCounterRef' = IF currentMsgId # Null THEN messageCounterRef ELSE newId
     /\ messages' = AppendMessage(messages, aiMessage)
     /\ isLoading' = FALSE
     /\ currentMessageId' = Null
     /\ thinkingMessages' = <<>>
     /\ thinkingCollapsedStates' =
          AutoCollapse(thinkingCollapsedStates, currentMsgId, currentThinking)
     /\ sess' = IF Live THEN [sess EXCEPT !.answered = TRUE] ELSE sess
     /\ currentTime' = Null
     /\ UNCHANGED <<error, sessionId, thinkingMessagesRef, currentMessageIdRef, sessionIdRef,
                    thinkingMessageCounterRef, crashed>>

\* "Start timer on first thinking message" (lines 204-217 and 227-240)
\* StartTimer keyed by the id of the message before the registered one
StartTimerWrongKey(timers, currentMsgId) ==
  IF currentMsgId # Null /\ Len(thinkingMessagesRef) = 0
    THEN Put(timers, currentMsgId - 1, [startTime |-> now, endTime |-> Null])
    ELSE timers

StartTimer(timers, currentMsgId) ==
  IF currentMsgId # Null /\ Len(thinkingMessagesRef) = 0
    THEN Put(timers, currentMsgId, [startTime |-> now, endTime |-> Null])
    ELSE timers

\* the THINKING branch of the envelope handler
HandleThinking(content) ==
  /\ thinkingTimersRef' = StartTimer(thinkingTimersRef, currentMessageIdRef)
  /\ thinkingTimers' = StartTimer(thinkingTimers, currentMessageIdRef)
  /\ thinkingMessageCounterRef' = thinkingMessageCounterRef + 1
  /\ thinkingMessages' = Append(thinkingMessages,
       ThinkingMessage(thinkingMessageCounterRef + 1, <<content>>, now))
  /\ sess' = IF Live
       THEN [sess EXCEPT !.events = Append(@, [kind |-> THINKING, payload |-> content, at |-> now])]
       ELSE sess
  /\ UNCHANGED <<messages, isLoading, error, sessionId, currentMessageId,
                 thinkingCollapsedStates, thinkingMessagesRef, currentMessageIdRef,
                 sessionIdRef, messageCounterRef, crashed, currentTime>>

\* existing.content + message.content (line 254)
\* the chunk taking the place of the content received so far
ReplaceContent(existing, content) == <<DeepMarker, content>>

ExtendContent(existing, content) == existing \o <<content>>

\* the DEEP_THINKING branch of the envelope handler.  The index is found in the
\* ref and used on the state: when the state is shorter than the index, the
\* updater reads `.content` of undefined, the render throws and the page is
\* unmounted.
HandleDeepThinking(content) ==
  LET existingDeepThinkingIndex == FindDeepIndex(thinkingMessagesRef)
  IN /\ thinkingTimersRef' = StartTimer(thinkingTimersRef, currentMessageIdRef)
     /\ thinkingTimers' = StartTimer(thinkingTimers, currentMessageIdRef)
     /\ IF existingDeepThinkingIndex > 0
          THEN /\ thinkingMessageCounterRef' = thinkingMessageCounterRef
               /\ IF existingDeepThinkingIndex <= Len(thinkingMessages)
                    THEN /\ thinkingMessages' =
                              [thinkingMessages EXCEPT ![existingDeepThinkingIndex].content =
                                 ExtendContent(@, content)]
                         /\ crashed' = FALSE
                    ELSE /\ thinkingMessages' = thinkingMessages
                         /\ crashed' = TRUE
          ELSE /\ thinkingMessageCounterRef' = thinkingMessageCounterRef + 1
               /\ thinkingMessages' = Append(thinkingMessages,
                    ThinkingMessage(thinkingMessageCounterRef + 1, <<DeepMarker, content>>, now))
               /\ crashed' = FALSE
     /\ sess' = IF Live
          THEN [sess EXCEPT !.events =
                  Append(@, [kind |-> DEEP_THINKING, payload |-> content, at |-> now])]
          ELSE sess
     /\ UNCHANGED <<messages, isLoading, error, sessionId, currentMessageId,
                    thinkingCollapsedStates, thinkingMessagesRef, currentMessageIdRef,
                    sessionIdRef, messageCounterRef, currentTime>>

\* thinkingCollapsedStates[messageId] || false
IsCollapsed(messageId) == Get(thinkingCollapsedStates, messageId, FALSE)

\* the callback given to addMessageHandler, for one received envelope
OnMessage(type, content) ==
  /\ ~crashed
  /\ nEnv < MaxEnvelopes
  /\ nEnv' = nEnv + 1
  /\ now' = now + 1
  /\ last' = [op |-> type, arg |-> content, live |-> Live,
              collapsed |-> Live /\ IsCollapsed(sess.id)]
  /\ CASE type = CHAT -> HandleChat(content)
       [] type = THINKING -> HandleThinking(content)
       [] type = DEEP_THINKING -> HandleDeepThinking(content)
  /\ UNCHANGED <<inflight, nReq, wsVars, fmtVars, otherPages>>

\* String.prototype.toLowerCase on the pieces a content is made of
ToLowerCase(piece) == IF piece = "USING TOOL: grep" THEN "using tool: grep" ELSE piece

\* piece.includes('using tool'), on lower-case text
IncludesUsingTool(piece) == piece = "using tool: grep"

\* content.toLowerCase().includes('using tool')
HasUsingTool(content) == \E i \in 1..Len(content) : IncludesUsingTool(ToLowerCase(content[i]))

\* shouldShowThinkingForMessage (shouldShowThinkingBox is the constant true)
\* a gate that lets every message through
ShouldShowAlways(message) == TRUE

ShouldShowThinkingForMessage(message) ==
  IF Len(message.thinkingMessages) > 0
    THEN \/ \E i \in 1..Len(message.thinkingMessages) :
              HasUsingTool(message.thinkingMessages[i].content)
         \/ \E i \in 1..Len(message.thinkingMessages) :
              HasDeepMarker(message.thinkingMessages[i].content)
    ELSE TRUE

\* the ids a ThinkingCard is rendered for: finalized messages (lines 478-486)
\* and the live card (lines 510-520)
CardRenderedFor(message) ==
  /\ message.sender = "ai"
  /\ ShouldShowThinkingForMessage(message)
  /\ Len(message.thinkingMessages) > 0

FinalizedCards ==
  {messages[i].id : i \in {j \in 1..Len(messages) : CardRenderedFor(messages[j])}}

LiveCardShown ==
  /\ isLoading
  /\ Len(thinkingMessages) > 0
  /\ currentMessageId # Null
  /\ \/ \E i \in 1..Len(thinkingMessages) : HasUsingTool(thinkingMessages[i].content)
     \/ \E i \in 1..Len(thinkingMessages) : HasDeepMarker(thinkingMessages[i].content)

RenderedCards == FinalizedCards \cup (IF LiveCardShown THEN {currentMessageId} ELSE {})

\* ThinkingCard.toggleCollapsed, on a click of a rendered card's header
\* a click that writes the flag of the current request instead
ToggleCollapsedCurrent(messageId) ==
  /\ ~crashed
  /\ messageId \in RenderedCards
  /\ thinkingCollapsedStates' =
       Put(thinkingCollapsedStates, currentMessageId, ~IsCollapsed(messageId))
  /\ sess' = IF Live /\ messageId = sess.id THEN [sess EXCEPT !.toggled = TRUE] ELSE sess
  /\ UNCHANGED <<last, messages, isLoading, error, sessionId, thinkingMessages, currentMessageId,
                 thinkingTimers, refVars, inflight, now, crashed, currentTime, nEnv, nReq,
                 wsVars, fmtVars, otherPages>>

ToggleCollapsed(messageId) ==
  /\ ~crashed
  /\ messageId \in RenderedCards
  /\ thinkingCollapsedStates' = Put(thinkingCollapsedStates, messageId, ~IsCollapsed(messageId))
  /\ sess' = IF Live /\ messageId = sess.id THEN [sess EXCEPT !.toggled = TRUE] ELSE sess
  /\ UNCHANGED <<last, messages, isLoading, error, sessionId, thinkingMessages, currentMessageId,
                 thinkingTimers, refVars, inflight, now, crashed, currentTime, nEnv, nReq,
                 wsVars, fmtVars, otherPages>>

\* the live card's timer runs: it has a start time and no end time (line 359)
LiveTimerRunning ==
  /\ LiveCardShown
  /\ Get(thinkingTimers, currentMessageId, NoTimer).startTime # Null
  /\ Get(thinkingTimers, currentMessageId, NoTimer).endTime = Null

\* the setInterval callback of the live ThinkingCard (lines 358-365)
Tick ==
  /\ ~crashed
  /\ LiveTimerRunning
  /\ currentTime' = now
  /\ UNCHANGED <<stateVars, refVars, inflight, now, crashed, sess, last, nEnv, nReq, wsVars, fmtVars, otherPages>>

\* ------------------------------------------------------------ the transport
\* what the transport keeps apart from its sockets, retry counter and timers
wsRest == <<messageHandlers, nHandlers, received, invoked>>

\* WebSocketService.getInstance: the first call runs the constructor, which
\* connects; later calls return the instance as it is
\* getInstance that connects on every call
GetInstanceConnects ==
  /\ wsLast' = [op |-> "getInstance", arg |-> 0]
  /\ Len(sockets) < MaxSockets
  /\ instance' = TRUE
  /\ sockets' = Append(sockets, CONNECTING)
  /\ ws' = Len(sockets) + 1
  /\ UNCHANGED <<reconnectAttempts, reconnectTimer, closes, wsRest, pageVars, fmtVars, otherPages>>

GetInstance ==
  /\ wsLast' = [op |-> "getInstance", arg |-> 0]
  /\ IF ~instance
       THEN /\ Len(sockets) < MaxSockets
            /\ instance' = TRUE
            /\ sockets' = Append(sockets, CONNECTING)
            /\ ws' = Len(sockets) + 1
       ELSE UNCHANGED <<instance, sockets, ws>>
  /\ UNCHANGED <<reconnectAttempts, reconnectTimer, closes, wsRest, pageVars, fmtVars, otherPages>>

\* ws.onopen of socket i
\* onopen that leaves the retry counter as it is
SocketOpenKeepsAttempts(i) ==
  /\ sockets[i] = CONNECTING
  /\ sockets' = [sockets EXCEPT ![i] = OPEN]
  /\ reconnectAttempts' = reconnectAttempts
  /\ closes' = 0
  /\ wsLast' = [op |-> "onopen", arg |-> i]
  /\ UNCHANGED <<instance, ws, reconnectTimer, wsRest, pageVars, fmtVars, otherPages>>

SocketOpen(i) ==
  /\ sockets[i] = CONNECTING
  /\ sockets' = [sockets EXCEPT ![i] = OPEN]
  /\ reconnectAttempts' = 0
  /\ closes' = 0
  /\ wsLast' = [op |-> "onopen", arg |-> i]
  /\ UNCHANGED <<instance, ws, reconnectTimer, wsRest, pageVars, fmtVars, otherPages>>

\* ws.onerror of socket i: a log line
SocketError(i) ==
  /\ sockets[i] \in {CONNECTING, OPEN}
  /\ wsLast' = [op |-> "onerror", arg |-> i]
  /\ UNCHANGED <<instance, sockets, ws, reconnectAttempts, reconnectTimer, closes, wsRest,
                 pageVars, fmtVars, otherPages>>

\* the guard of attemptReconnect (websocket.ts:66)
\* the guard with <= for <
CanReconnectOffByOne == reconnectAttempts <= maxReconnectAttempts

CanReconnect == reconnectAttempts < maxReconnectAttempts

\* ws.onclose of socket i, which calls attemptReconnect
\* onclose of a socket that may fire again after the socket has closed
SocketCloseRepeats(i) ==
  /\ sockets' = [sockets EXCEPT ![i] = CLOSED]
  /\ closes' = closes + 1
  /\ IF CanReconnect
       THEN /\ reconnectAttempts' = reconnectAttempts + 1
            /\ reconnectTimer' = reconnectTimer + 1
       ELSE UNCHANGED <<reconnectAttempts, reconnectTimer>>
  /\ wsLast' = [op |-> "onclose", arg |-> i]
  /\ UNCHANGED <<instance, ws, wsRest, pageVars, fmtVars, otherPages>>

SocketClose(i) ==
  /\ sockets[i] \in {CONNECTING, OPEN}
  /\ sockets' = [sockets EXCEPT ![i] = CLOSED]
  /\ closes' = closes + 1
  /\ IF CanReconnect
       THEN /\ reconnectAttempts' = reconnectAttempts + 1
            /\ reconnectTimer' = reconnectTimer + 1
       ELSE UNCHANGED <<reconnectAttempts, reconnectTimer>>
  /\ wsLast' = [op |-> "onclose", arg |-> i]
  /\ UNCHANGED <<instance, ws, wsRest, pageVars, fmtVars, otherPages>>

\* the setTimeout callback of attemptReconnect: connect()
\* a callback that schedules itself again instead of connecting
ReconnectTimeoutRearms ==
  /\ reconnectTimer > 0
  /\ Len(sockets) < MaxSockets
  /\ wsLast' = [op |-> "connect", arg |-> 0]
  /\ UNCHANGED <<instance, sockets, ws, reconnectAttempts, reconnectTimer, closes, wsRest,
                 pageVars, fmtVars, otherPages>>

ReconnectTimeout ==
  /\ reconnectTimer > 0
  /\ Len(sockets) < MaxSockets
  /\ reconnectTimer' = reconnectTimer - 1
  /\ sockets' = Append(sockets, CONNECTING)
  /\ ws' = Len(sockets) + 1
  /\ wsLast' = [op |-> "connect", arg |-> 0]
  /\ UNCHANGED <<instance, reconnectAttempts, closes, wsRest, pageVars, fmtVars, otherPages>>

\* JSON.parse(event.data) returns (websocket.ts:48)
\* a parser that accepts every text
JsonParsesAnything(frame) == TRUE

JsonParses(frame) == frame # Malformed

\* handler(message) throws: every handler of the repository reads message.type
\* first (part_000:146, chat-box.tsx:42, page.tsx:48), a TypeError on null
\* a handler that throws for no message
HandlerNeverThrows(h, frame) == FALSE

HandlerThrows(h, frame) == frame = NullJson

\* notifyHandlers: the handlers forEach calls, in order, up to and including
\* the first that throws
RECURSIVE Notified(_, _)
Notified(handlers, frame) ==
  IF handlers = <<>> THEN <<>>
  ELSE IF HandlerThrows(Head(handlers), frame) THEN <<Head(handlers)>>
  ELSE <<Head(handlers)>> \o Notified(Tail(handlers), frame)

\* ws.onmessage of socket i
SocketMessage(i, frame) ==
  /\ sockets[i] = OPEN
  /\ Len(received) < MaxFrames
  /\ received' = Append(received, frame)
  /\ invoked' = IF JsonParses(frame) THEN Notified(messageHandlers, frame) ELSE <<>>
  /\ wsLast' = [op |-> "onmessage", arg |-> i]
  /\ UNCHANGED <<instance, sockets, ws, reconnectAttempts, reconnectTimer, closes,
                 messageHandlers, nHandlers, pageVars, fmtVars, otherPages>>

\* addMessageHandler(handler), with a function created for the call as every
\* caller in the repository does; handlers are numbered as they are created
AddMessageHandler ==
  /\ instance
  /\ nHandlers < MaxHandlers
  /\ nHandlers' = nHandlers + 1
  /\ messageHandlers' = Append(messageHandlers, nHandlers + 1)
  /\ wsLast' = [op |-> "addMessageHandler", arg |-> nHandlers + 1]
  /\ UNCHANGED <<instance, sockets, ws, reconnectAttempts, reconnectTimer, closes,
                 received, invoked, pageVars, fmtVars, otherPages>>

\* messageHandlers.filter(h => h !== handler)
\* a removal that drops the newest registration instead
WithoutNewest(handlers, handler) == SubSeq(handlers, 1, Len(handlers) - 1)

Without(handlers, handler) == SelectSeq(handlers, LAMBDA h : h # handler)

\* the function addMessageHandler returned for handler
RemoveHandler(handler) ==
  /\ handler \in 1..nHandlers
  /\ messageHandlers' = Without(messageHandlers, handler)
  /\ wsLast' = [op |-> "removeHandler", arg |-> handler]
  /\ UNCHANGED <<instance, sockets, ws, reconnectAttempts, reconnectTimer, closes,
                 nHandlers, received, invoked, pageVars, fmtVars, otherPages>>

\* "this.ws?.readyState === WebSocket.OPEN" (websocket.ts:76)
\* a test that also passes while the socket is connecting
IsConnectedOrConnecting == ws # Null /\ sockets[ws] # CLOSED

IsConnected == ws # Null /\ sockets[ws] = OPEN

\* sendMessage: ws.send when this.ws is open (arg 1), a log line otherwise (arg 0)
SendMessage ==
  /\ instance
  /\ wsLast' = [op |-> "sendMessage", arg |-> IF IsConnected THEN 1 ELSE 0]
  /\ UNCHANGED <<instance, sockets, ws, reconnectAttempts, reconnectTimer, closes, wsRest,
                 pageVars, fmtVars, otherPages>>

TransportInit == PageInit /\ WsFresh /\ FmtIdle /\ OtherPagesInit

TransportNext ==
  \/ GetInstance
  \/ \E i \in DOMAIN sockets : SocketOpen(i)
  \/ \E i \in DOMAIN sockets : SocketError(i)
  \/ \E i \in DOMAIN sockets : SocketClose(i)
  \/ ReconnectTimeout
  \/ \E i \in DOMAIN sockets, frame \in Frames : SocketMessage(i, frame)
  \/ AddMessageHandler
  \/ \E handler \in 1..nHandlers : RemoveHandler(handler)
  \/ SendMessage

TransportSpec == TransportInit /\ [][TransportNext]_vars

Next ==
  \/ \E text \in Inputs : HandleSendMessage(text)
  \/ \E req \in inflight, resp \in Responses : HttpResolve(req, resp)
  \/ \E type \in EnvelopeTypes, content \in Payloads : OnMessage(type, content)
  \/ FlushEffects
  \/ \E id \in RenderedCards : ToggleCollapsed(id)
  \/ Tick

Spec == Init /\ [][Next]_vars

\* ---------------------------------------------------------------- history
\* the payloads of the DeepThinkingChunk envelopes of the session, in arrival order
RECURSIVE DeepPayloads(_)
DeepPayloads(events) ==
  IF events = <<>> THEN <<>>
  ELSE IF events[1].kind = DEEP_THINKING
    THEN <<events[1].payload>> \o DeepPayloads(Tail(events))
    ELSE DeepPayloads(Tail(events))

\* the events that are to make a step of their own: every ThinkingStep and the
\* first DeepThinkingChunk
RECURSIVE StepEvents(_, _)
StepEvents(events, seenDeep) ==
  IF events = <<>> THEN <<>>
  ELSE IF events[1].kind = DEEP_THINKING
    THEN (IF seenDeep THEN <<>> ELSE <<events[1]>>) \o StepEvents(Tail(events), TRUE)
    ELSE <<events[1]>> \o StepEvents(Tail(events), seenDeep)

DeepStepIndexes(steps) == {i \in 1..Len(steps) : HasDeepMarker(steps[i].content)}

\* this step is the handling of an envelope of the given type
EnvelopeStep(type) == nEnv' # nEnv /\ last'.op = type
\* the last envelope was an Answer that ended a live session, and no request
\* was begun since: the last message is that session's finalized record
JustFinalized == last.op = CHAT /\ last.live /\ Len(messages) > 0

\* ------------------------------------------------------------------ claims

\* C1: while a session is live, the DeepThinkingChunk envelopes received in it
\* have produced exactly one deep-thinking step, whose content is the marker
\* followed by the chunk payloads in arrival order.
C1_DeepChunksMakeOneStep ==
  (Live /\ DeepPayloads(sess.events) # <<>>) =>
     /\ Cardinality(DeepStepIndexes(thinkingMessages)) = 1
     /\ \A i \in DeepStepIndexes(thinkingMessages) :
          thinkingMessages[i].content = <<DeepMarker>> \o DeepPayloads(sess.events)

\* C2: the record finalized by the Answer of a live session holds one step per
\* ThinkingStep and one for the first DeepThinkingChunk received in the
\* session, in arrival order, none missing.
C2_FinalizedStepsComplete ==
  JustFinalized =>
    LET steps == Last(messages).thinkingMessages
        expected == StepEvents(sess.events, FALSE)
    IN /\ Len(steps) = Len(expected)
       /\ \A i \in 1..Len(expected) :
            /\ i <= Len(steps)
            /\ steps[i].timestamp = expected[i].at
            /\ IF expected[i].kind = THINKING
                 THEN steps[i].content = <<expected[i].payload>>
                 ELSE SubSeq(steps[i].content, 1, 2) = <<DeepMarker, expected[i].payload>>

\* the ai messages of a message list, in order
AiMessages(list) == SelectSeq(list, LAMBDA m : m.sender = "ai")

\* C3: every Answer envelope appends exactly one ai message, whose content is
\* the envelope's payload, at the end of the message list, and no other step
\* (thinking envelope, request, response, failure, effects, tick, toggle)
\* changes the ai messages of the list.
C3_OnlyAnswerAppendsAiMessage ==
  [][IF EnvelopeStep(CHAT)
       THEN /\ Len(messages') = Len(messages) + 1
            /\ SubSeq(messages', 1, Len(messages)) = messages
            /\ Last(messages').sender = "ai"
            /\ Last(messages').content = last'.arg
       ELSE AiMessages(messages') = AiMessages(messages)]_vars

\* C3 witness: an Answer was handled while a request was outstanding and its
\* ai message is the last of the list, after the user's message.
C3_Witness ==
  /\ last.op = CHAT
  /\ Len(messages) >= 2
  /\ Last(messages).sender = "ai"
  /\ Last(messages).content = last.arg
  /\ messages[Len(messages) - 1].sender = "user"

\* C4: a request begun while a session is live is rejected: the live session
\* keeps its request id and its steps.
C4_SendWhileLiveRejected ==
  [][(Live /\ nReq' # nReq) =>
        /\ currentMessageId' = currentMessageId
        /\ thinkingMessages' = thinkingMessages
        /\ sess'.id = sess.id]_vars

\* C5: from the moment a request is issued until its Answer is received the
\* send guard isLoading stays set.
C5_LoadingWhileLive == Live => isLoading

\* C6: the startTime recorded under the session's request id is the time of
\* the first thinking-kind envelope of the session.
C6_StartedAtFirstEvent ==
  (Live /\ sess.events # <<>>) =>
     /\ sess.id \in DOMAIN thinkingTimers
     /\ thinkingTimers[sess.id].startTime = sess.events[1].at

\* a thinking-kind event of the session is recorded in the step buffer
Recorded(e) ==
  \E i \in 1..Len(thinkingMessages) :
    IF e.kind = THINKING
      THEN /\ thinkingMessages[i].content = <<e.payload>>
           /\ thinkingMessages[i].timestamp = e.at
      ELSE /\ HasDeepMarker(thinkingMessages[i].content)
           /\ \E k \in 2..Len(thinkingMessages[i].content) :
                thinkingMessages[i].content[k] = e.payload

\* C7: every thinking-kind envelope handled after a request id was registered
\* and before the Answer is attached to that request: its step is in the
\* buffer, the registered id is the current one in state and ref, and a timer
\* started at one of the session's events is keyed by that id, whether or not
\* the fetch has resolved and whether or not the effects have run since.
C7_EventsAttachToRegisteredRequest ==
  (Live /\ sess.events # <<>>) =>
     /\ \A k \in 1..Len(sess.events) : Recorded(sess.events[k])
     /\ currentMessageId = sess.id
     /\ currentMessageIdRef = sess.id
     /\ sess.id \in DOMAIN thinkingTimers
     /\ sess.id \in DOMAIN thinkingTimersRef
     /\ \E k \in 1..Len(sess.events) :
          thinkingTimers[sess.id].startTime = sess.events[k].at

\* C7 witness: a thinking envelope was handled for a registered request whose
\* fetch had not resolved, before the effects ran.
C7_Witness ==
  /\ Live
  /\ last.op = THINKING
  /\ Len(sess.events) = 1
  /\ inflight # {}
  /\ thinkingMessagesRef # thinkingMessages
  /\ sess.id \in DOMAIN thinkingTimers

\* C8: a ThinkingStep or DeepThinkingChunk handled while no session is current
\* is dropped: step buffer, timers and message list stay as they are.
C8_OrphanEventDropped ==
  [][((EnvelopeStep(THINKING) \/ EnvelopeStep(DEEP_THINKING))
        /\ ~Live /\ currentMessageId = Null /\ currentMessageIdRef = Null) =>
       UNCHANGED <<thinkingMessages, thinkingTimers, messages>>]_vars

\* C9 as stated: an Answer with no prior thinking event of the current request
\* yields a record with no startedAt, no endedAt and no steps, with the answer,
\* that is not rendered as a timeline.
C9_NoEventsNoTimes ==
  (JustFinalized /\ sess.events = <<>>) =>
    LET m == Last(messages)
    IN /\ m.thinkingStartTime = Null
       /\ m.thinkingEndTime = Null
       /\ m.thinkingMessages = <<>>
       /\ m.content = last.arg
       /\ ~CardRenderedFor(m)

\* C9 amended: such a record has no startedAt and no steps, holds the answer,
\* is not rendered as a timeline, and its thinkingEndTime is the time the
\* Answer was handled; no timer is recorded under the request id.
C9_NoEventsNoStartButEnd ==
  (JustFinalized /\ sess.events = <<>>) =>
    LET m == Last(messages)
    IN /\ m.id = sess.id
       /\ m.thinkingStartTime = Null
       /\ m.thinkingEndTime = m.timestamp
       /\ m.thinkingEndTime # Null
       /\ m.thinkingMessages = <<>>
       /\ ~m.showThinking
       /\ m.content = last.arg
       /\ ~CardRenderedFor(m)
       /\ sess.id \notin DOMAIN thinkingTimers

\* C9 witness: the Answer of a live session without thinking events was handled.
C9_Witness ==
  /\ JustFinalized
  /\ sess.events = <<>>
  /\ Last(messages).sender = "ai"
  /\ Last(messages).thinkingEndTime # Null

StepIds(message) == {message.thinkingMessages[k].id : k \in 1..Len(message.thinkingMessages)}

\* C11: the handling of an Answer clears the current-session pointer and the
\* step buffer, and the record it appends re-uses neither the id nor any step
\* of a record finalized earlier.
C11_AnswerClearsSession ==
  [][EnvelopeStep(CHAT) =>
       /\ currentMessageId' = Null
       /\ thinkingMessages' = <<>>
       /\ \A i \in 1..Len(messages) :
            messages[i].sender = "ai" =>
              /\ Last(messages').id # messages[i].id
              /\ StepIds(Last(messages')) \cap StepIds(messages[i]) = {}]_vars

\* C12: no step changes a message already in the list: a finalized record
\* keeps its steps, thinkingStartTime, thinkingEndTime and content under every
\* later envelope, request, response, failure, toggle, tick and effect.
C12_FinalizedImmutable ==
  [][\A i \in 1..Len(messages) :
       /\ i <= Len(messages')
       /\ messages'[i] = messages[i]]_vars

\* C12 witness: a record finalized with steps and both times is in the list,
\* and a later request was begun after it.
C12_Witness ==
  \E i \in 1..Len(messages) :
    /\ i < Len(messages)
    /\ messages[i].sender = "ai"
    /\ Len(messages[i].thinkingMessages) > 0
    /\ messages[i].thinkingStartTime # Null
    /\ messages[i].thinkingEndTime # Null
    /\ Last(messages).sender = "user"
    /\ nReq = 2

\* C13: while one session stays live, the step buffer shown as the
\* in-progress timeline only grows: every step keeps its position, id and
\* timestamp, its content is what it was or that followed by appended
\* pieces, and the length does not decrease.
C13_LiveStepsOnlyGrow ==
  [][(Live /\ Live' /\ sess'.id = sess.id) =>
       /\ Len(thinkingMessages') >= Len(thinkingMessages)
       /\ \A i \in 1..Len(thinkingMessages) :
            /\ i <= Len(thinkingMessages')
            /\ thinkingMessages'[i].id = thinkingMessages[i].id
            /\ thinkingMessages'[i].timestamp = thinkingMessages[i].timestamp
            /\ Len(thinkingMessages'[i].content) >= Len(thinkingMessages[i].content)
            /\ SubSeq(thinkingMessages'[i].content, 1, Len(thinkingMessages[i].content))
                 = thinkingMessages[i].content]_vars

\* C13 witness: a live session whose deep-thinking step was extended by a
\* second chunk.
C13_Witness ==
  /\ Live
  /\ Len(sess.events) = 2
  /\ last.op = DEEP_THINKING
  /\ Len(thinkingMessages) = 1
  /\ Len(thinkingMessages[1].content) = 3

\* the fetch call failed: it threw, or came back non-2xx or with success:false
Failed(resp) == resp.threw \/ ~resp.ok \/ ~resp.success

\* C14: a failed request stores one error string and leaves the request id,
\* the steps, the timers, the message list and the refs as they are; while the
\* error is shown, a thinking envelope of the live session still adds its
\* payload to the buffer and the Answer still finalizes the session under its
\* request id.
C14_FailureLeavesSession ==
  [][/\ \A req \in inflight, resp \in Responses :
          (Failed(resp) /\ HttpResolve(req, resp)) =>
             /\ error' # NoError
             /\ error' = ErrorMessage(resp)
             /\ UNCHANGED <<currentMessageId, currentMessageIdRef, thinkingMessages,
                            thinkingMessagesRef, thinkingTimers, thinkingTimersRef,
                            messages, sess>>
     /\ (error # NoError /\ Live /\ EnvelopeStep(THINKING)) =>
          /\ Live'
          /\ thinkingMessages' # <<>>
          /\ SubSeq(thinkingMessages', 1, Len(thinkingMessages)) = thinkingMessages
          /\ Last(thinkingMessages').content = <<last'.arg>>
     /\ (error # NoError /\ Live /\ EnvelopeStep(DEEP_THINKING)) =>
          /\ Live'
          /\ \E i \in 1..Len(thinkingMessages') :
               /\ HasDeepMarker(thinkingMessages'[i].content)
               /\ Last(thinkingMessages'[i].content) = last'.arg
     /\ (error # NoError /\ Live /\ EnvelopeStep(CHAT)) =>
          /\ sess'.answered
          /\ Last(messages').id = sess.id
          /\ Last(messages').content = last'.arg
          /\ currentMessageId' = Null]_vars

\* C14 witness: the only request failed, and its session was finalized under
\* its request id with the steps received.
C14_Witness ==
  /\ nReq = 1
  /\ inflight = {}
  /\ error # NoError
  /\ JustFinalized
  /\ Last(messages).id = sess.id
  /\ Len(Last(messages).thinkingMessages) > 0

\* ------------------------------------------------------- transport claims
\* the transport has given up: its socket is closed and no retry is scheduled
GaveUp == instance /\ ws # Null /\ sockets[ws] = CLOSED /\ reconnectTimer = 0
\* no connection attempt is under way or scheduled
NoAttempt == reconnectTimer = 0 /\ \A i \in DOMAIN sockets : sockets[i] = CLOSED

\* C15 as stated: once 5 close events have come with no open event in
\* between, no connection attempt is under way or scheduled, and the retry
\* counter never exceeds the maximum.
C15_StopsAfterFiveCloses ==
  /\ reconnectAttempts <= maxReconnectAttempts
  /\ closes >= maxReconnectAttempts => NoAttempt

\* C15 amended: the retry counter never exceeds the maximum; each of the first
\* 5 consecutive close events schedules one more attempt (the fifth close
\* schedules the fifth retry), and it is the close event after those, the
\* sixth in a row, that leaves the transport with no attempt under way or
\* scheduled.
C15_StopsAfterFiveRetries ==
  /\ reconnectAttempts <= maxReconnectAttempts
  /\ closes <= maxReconnectAttempts + 1
  /\ closes = maxReconnectAttempts + 1 =>
       (NoAttempt /\ reconnectAttempts = maxReconnectAttempts)
  /\ closes \in 1..maxReconnectAttempts =>
       /\ reconnectAttempts = closes
       /\ \/ reconnectTimer = 1 /\ sockets[ws] = CLOSED
          \/ reconnectTimer = 0 /\ sockets[ws] = CONNECTING

\* C15 witness: the initial attempt and 5 retries all failed, and the
\* transport is at rest.
C15_Witness ==
  /\ closes = maxReconnectAttempts + 1
  /\ Len(sockets) = maxReconnectAttempts + 1
  /\ GaveUp

\* C16: while a socket is open the retry counter is zero, and the counter is
\* always the number of close events since the last open event (capped at the
\* maximum): what was spent before an Open does not count after it.
C16_OpenResetsCounter ==
  /\ \A i \in DOMAIN sockets : sockets[i] = OPEN => reconnectAttempts = 0
  /\ reconnectAttempts =
       IF closes <= maxReconnectAttempts THEN closes ELSE maxReconnectAttempts

\* C16 witness: a connection attempt failed, a later one reached Open, and the
\* outage after that Open was given 5 retries before the transport gave up.
C16_Witness ==
  /\ GaveUp
  /\ closes = maxReconnectAttempts + 1
  /\ Len(sockets) = maxReconnectAttempts + 2

\* C17: once the transport has given up, a getInstance call (the invocation
\* open to callers) starts a new connection attempt.
C17_GetInstanceReconnects ==
  [][(GaveUp /\ wsLast'.op = "getInstance") =>
       /\ Len(sockets') = Len(sockets) + 1
       /\ sockets'[ws'] = CONNECTING]_vars

\* the elements of a sequence
Range(seq) == {seq[k] : k \in 1..Len(seq)}

\* C18: for a frame that decoded, every handler registered when it was
\* received was called exactly once, in registration order.
C18_EveryHandlerInvokedOnce ==
  (wsLast.op = "onmessage" /\ JsonParses(Last(received))) => invoked = messageHandlers

\* C19: the function returned for handler h leaves the list without h and
\* with every other handler in place and in order (so a second call changes
\* nothing), and a frame received later calls only handlers that are in the
\* list, never a removed one.
C19_RemoveHandlerRemoves ==
  [][/\ \A h \in 1..nHandlers :
          (wsLast'.op = "removeHandler" /\ wsLast'.arg = h) =>
             /\ h \notin Range(messageHandlers')
             /\ messageHandlers' = SelectSeq(messageHandlers, LAMBDA g : g # h)
             /\ Range(messageHandlers') = Range(messageHandlers) \ {h}
             /\ (h \notin Range(messageHandlers) => messageHandlers' = messageHandlers)
             /\ UNCHANGED <<sockets, ws, reconnectAttempts, reconnectTimer, received, invoked>>
     /\ received' # received =>
          /\ Range(invoked') \subseteq Range(messageHandlers)
          /\ messageHandlers' = messageHandlers]_vars

\* C19 witness: of two handlers registered one was removed, and an envelope
\* received afterwards was given to the other one only.
C19_Witness ==
  /\ wsLast.op = "onmessage"
  /\ Last(received) = EnvelopeJson
  /\ nHandlers = 2
  /\ Len(messageHandlers) = 1
  /\ invoked = messageHandlers

\* C20: a frame that fails JSON.parse calls no handler and leaves the sockets,
\* the retry counter, the retry timer and the handler list as they are.
C20_MalformedDropped ==
  [][(received' # received /\ Last(received') = Malformed) =>
       /\ invoked' = <<>>
       /\ UNCHANGED <<instance, sockets, ws, reconnectAttempts, reconnectTimer, closes,
                      messageHandlers, nHandlers>>]_vars

\* C20 witness: a malformed frame was received on the open socket while a
\* handler was registered, and the socket is still open.
C20_Witness ==
  /\ wsLast.op = "onmessage"
  /\ Last(received) = Malformed
  /\ messageHandlers # <<>>
  /\ sockets[ws] = OPEN
  /\ invoked = <<>>

\* a step whose content holds the tool-use marker in any case, or the Deep
\* Thinking marker
HasMarker(step) ==
  \/ \E i \in 1..Len(step.content) :
        step.content[i] \in {"USING TOOL: grep", "using tool: grep", "Using tool: grep"}
  \/ \E i \in 1..Len(step.content) : step.content[i] = DeepMarker

\* C24: a finalized record's timeline is rendered exactly when one of its
\* steps holds the tool-use marker (in any case) or the Deep Thinking marker;
\* a record with only generic steps, or with none, is not rendered.
C24_ShownIffMarkedStep ==
  \A i \in 1..Len(messages) :
    messages[i].sender = "ai" =>
      (CardRenderedFor(messages[i]) <=>
         \E k \in 1..Len(messages[i].thinkingMessages) :
            HasMarker(messages[i].thinkingMessages[k]))

\* C24 witness: a finalized record whose steps are all generic is in the list
\* and is not rendered.
C24_Witness ==
  \E i \in 1..Len(messages) :
    /\ messages[i].sender = "ai"
    /\ Len(messages[i].thinkingMessages) > 0
    /\ \A k \in 1..Len(messages[i].thinkingMessages) :
          messages[i].thinkingMessages[k].content = <<"p1">>
    /\ ~CardRenderedFor(messages[i])

\* C25: a click on the header of the card of request id k negates the flag
\* of k (so a second click restores it) and leaves every other flag, the step
\* buffer, the timers, the current-session pointer, the message list and the
\* refs as they are.
C25_ToggleFlipsOneFlag ==
  [][\A k \in RenderedCards :
       ToggleCollapsed(k) =>
         /\ IsCollapsed(k)' = ~IsCollapsed(k)
         /\ \A j \in (DOMAIN thinkingCollapsedStates \cup DOMAIN thinkingCollapsedStates') \ {k} :
              IsCollapsed(j)' = IsCollapsed(j)
         /\ UNCHANGED <<thinkingMessages, thinkingTimers, currentMessageId, messages,
                        refVars, isLoading, error, sessionId>>]_vars

\* C25 witness: the card of a finalized session, collapsed by its Answer, was
\* expanded by a click, and another request is current.
C25_Witness ==
  \E k \in DOMAIN thinkingCollapsedStates :
    /\ k \in FinalizedCards
    /\ ~IsCollapsed(k)
    /\ currentMessageId \notin {Null, k}

\* the steps that are not deep-thinking steps, and the ThinkingStep events
NonDeepSteps(steps) == SelectSeq(steps, LAMBDA st : ~HasDeepMarker(st.content))
ThinkingEvents(events) == SelectSeq(events, LAMBDA e : e.kind = THINKING)

\* C28: in a live session the steps other than deep-thinking steps are, in
\* order, one per ThinkingStep envelope received, each with that envelope's
\* content and time, whatever deep-thinking steps exist; and the step of the
\* ThinkingStep envelope handled last is the last of the sequence.
C28_ThinkingStepAppended ==
  Live =>
    LET got == NonDeepSteps(thinkingMessages)
        want == ThinkingEvents(sess.events)
    IN /\ Len(got) = Len(want)
       /\ \A i \in 1..Len(want) :
            /\ i <= Len(got)
            /\ got[i].content = <<want[i].payload>>
            /\ got[i].timestamp = want[i].at
       /\ last.op = THINKING =>
            /\ thinkingMessages # <<>>
            /\ Last(thinkingMessages).content = <<last.arg>>

\* C28 witness: a ThinkingStep envelope was handled in a live session that
\* already had a deep-thinking step, and its step follows that one.
C28_Witness ==
  /\ Live
  /\ last.op = THINKING
  /\ Len(thinkingMessages) = 2
  /\ HasDeepMarker(thinkingMessages[1].content)
  /\ thinkingMessages[2].content = <<last.arg>>

\* a successful response of a backend that hands out a second sessionId
RenewedResponses ==
  {[ok |-> TRUE, success |-> TRUE, sessionId |-> "s2", error |-> NoError, threw |-> FALSE]}

\* the requests, responses and envelopes of the page, with a backend that may
\* also answer with the second sessionId (the handlers of ThinkingCard, its
\* interval timer and its collapse toggle, are left out)
SessionNext ==
  \/ \E text \in Inputs : HandleSendMessage(text)
  \/ \E req \in inflight, resp \in Responses \cup RenewedResponses : HttpResolve(req, resp)
  \/ \E type \in EnvelopeTypes, content \in Payloads : OnMessage(type, content)
  \/ FlushEffects

SessionSpec == Init /\ [][SessionNext]_vars

\* C29: a request that is sent carries the stored sessionId (none when none is
\* stored); a response that succeeded and holds a sessionId replaces the stored
\* one, and a failed request, a response without a sessionId and every other
\* step leave it as it is, so the stored sessionId is that of the most recent
\* successful response that held one.
C29_RequestCarriesLatestSession ==
  [][/\ (nReq' = nReq /\ inflight' # inflight) =>
          \A req \in inflight \ inflight', resp \in Responses \cup RenewedResponses :
             (sessionId' # IF ~Failed(resp) /\ resp.sessionId # NoSession
                             THEN resp.sessionId ELSE sessionId)
               => ~HttpResolve(req, resp)
     /\ (nReq' # nReq \/ inflight' = inflight) => sessionId' = sessionId
     /\ nReq' # nReq =>
          /\ Cardinality(inflight' \ inflight) = 1
          /\ \A req \in inflight' \ inflight : req.sessionId = sessionId
          /\ Last(messages').sessionId = sessionId]_vars

\* a request was sent with the first sessionId, and its response replaced the
\* stored sessionId by a second one
C29_Witness ==
  /\ sessionId = "s2"
  /\ \E i \in 1..Len(messages) : messages[i].sender = "user" /\ messages[i].sessionId = "s1"

\* C21: sendMessage transmits exactly when a socket of the transport is open,
\* which is when this.ws is open; whether it transmits or not, the call returns
\* and leaves the sockets, this.ws, the retry counter, the timer and the
\* handlers as they are.
C21_SendOnlyWhenOpen ==
  [][wsLast'.op = "sendMessage" =>
       /\ wsLast'.arg = 1 <=> (\E i \in 1..Len(sockets) : sockets[i] = OPEN)
       /\ wsLast'.arg = 1 <=> (ws # Null /\ sockets[ws] = OPEN)
       /\ wsLast'.arg \in {0, 1}
       /\ UNCHANGED <<instance, sockets, ws, reconnectAttempts, reconnectTimer, closes,
                      messageHandlers, nHandlers, received, invoked>>]_vars

\* sendMessage was called, and transmitted nothing, after the transport gave up
\* with a handler registered
C21_Witness ==
  /\ wsLast = [op |-> "sendMessage", arg |-> 0]
  /\ GaveUp
  /\ reconnectAttempts = maxReconnectAttempts
  /\ messageHandlers # <<>>

\* C22: the first getInstance call constructs the instance and opens one
\* connection; every later call finds the instance and constructs nothing, opens
\* no connection and changes nothing of the instance; the instance is never
\* dropped, and a socket exists only once it was constructed.
C22_SingleInstance ==
  [][/\ wsLast'.op = "getInstance" =>
          IF ~instance
            THEN /\ instance'
                 /\ sockets = <<>>
                 /\ sockets' = <<CONNECTING>>
                 /\ ws' = 1
            ELSE UNCHANGED <<instance, sockets, ws, reconnectAttempts, reconnectTimer,
                             closes, messageHandlers, nHandlers, received, invoked>>
     /\ instance => instance'
     /\ (~instance') => (sockets' = <<>> /\ ws' = Null)]_vars

\* getInstance was called again after a handler was registered, and the
\* transport still has the one socket of the construction
C22_Witness ==
  /\ wsLast.op = "getInstance"
  /\ instance
  /\ nHandlers > 0
  /\ Len(sockets) = 1
  /\ sockets[1] = OPEN

\* C27: a frame whose first handler throws calls that handler and none of the
\* handlers registered after it; the frame leaves the sockets, this.ws, the
\* retry counter, the retry timer and the handler list as they are, and an
\* envelope received after it calls every handler in registration order.
C27_ThrowStopsDispatchOnly ==
  [][received' # received =>
       /\ UNCHANGED <<instance, sockets, ws, reconnectAttempts, reconnectTimer, closes,
                      messageHandlers, nHandlers>>
       /\ Last(received') = NullJson =>
            invoked' = IF messageHandlers = <<>> THEN <<>> ELSE <<Head(messageHandlers)>>
       /\ (received # <<>> /\ Last(received) = NullJson
              /\ Last(received') = EnvelopeJson) =>
            invoked' = messageHandlers]_vars

\* the first of two handlers threw for a frame, and the envelope received next
\* on the same open socket called both handlers
C27_Witness ==
  /\ wsLast.op = "onmessage"
  /\ Len(received) = 2
  /\ received[1] = NullJson
  /\ received[2] = EnvelopeJson
  /\ Len(messageHandlers) = 2
  /\ invoked = messageHandlers
  /\ sockets[ws] = OPEN
  /\ reconnectTimer = 0

\* message.type values none of the three tests of the handler matches: the
\* other members of MessageType (websocket.ts:4-6), a type the client does not
\* know, and an envelope without a type
NoType == "undefined"
OtherTypes == {"notification", "status", "error", "unknown", NoType}

\* the callback given to addMessageHandler, for an envelope whose type fails
\* the tests of lines 146, 203 and 226: no branch runs
\* a callback that ends in an else branch taking the envelope as a thinking step
OnOtherMessageAsThinking(type, content) ==
  /\ ~crashed
  /\ type \notin EnvelopeTypes
  /\ nEnv < MaxEnvelopes
  /\ nEnv' = nEnv + 1
  /\ now' = now + 1
  /\ last' = [op |-> type, arg |-> content, live |-> Live,
              collapsed |-> Live /\ IsCollapsed(sess.id)]
  /\ HandleThinking(content)
  /\ UNCHANGED <<inflight, nReq, wsVars, fmtVars, otherPages>>

OnOtherMessage(type, content) ==
  /\ ~crashed
  /\ type \notin EnvelopeTypes
  /\ nEnv < MaxEnvelopes
  /\ nEnv' = nEnv + 1
  /\ last' = [op |-> type, arg |-> content, live |-> Live,
              collapsed |-> Live /\ IsCollapsed(sess.id)]
  /\ UNCHANGED <<stateVars, refVars, inflight, now, crashed, currentTime, sess, nReq, wsVars, fmtVars, otherPages>>

\* the page receiving envelopes of every type
EnvelopeNext ==
  \/ Next
  \/ \E type \in OtherTypes, content \in Payloads : OnOtherMessage(type, content)

EnvelopeSpec == Init /\ [][EnvelopeNext]_vars

MaxStartTime == 2
MaxDuration == 2500

\* formatDuration(startTime, endTime) (part_000:78-89), with template literals
\* as concatenation of the decimal texts
\* a formatDuration that rounds the tenths instead of truncating them
FormatDurationRounded(startTime, endTime, clock) ==
  LET end == IF endTime # Null THEN endTime ELSE clock
      durationMs == end - startTime
      seconds == durationMs \div 1000
      milliseconds == durationMs % 1000
  IN IF seconds > 0
       THEN ToString(seconds) \o "." \o ToString((milliseconds + 50) \div 100) \o "s"
       ELSE ToString(milliseconds) \o "ms"

FormatDuration(startTime, endTime, clock) ==
  LET end == IF endTime # Null THEN endTime ELSE clock
      durationMs == end - startTime
      seconds == durationMs \div 1000
      milliseconds == durationMs % 1000
  IN IF seconds > 0
       THEN ToString(seconds) \o "." \o ToString(milliseconds \div 100) \o "s"
       ELSE ToString(milliseconds) \o "ms"

\* the arguments of a call: ThinkingCard passes the endTime of a finished
\* session or its currentTime (part_000:381); a call without endTime reads the
\* clock (part_000:79)
DurationInit ==
  /\ PageInit /\ WsMounted /\ OtherPagesInit
  /\ fmtStartTime \in 1..MaxStartTime
  /\ \E d \in 0..MaxDuration :
       \/ fmtEndTime = fmtStartTime + d /\ fmtClock = fmtStartTime + MaxDuration
       \/ fmtEndTime = Null /\ fmtClock = fmtStartTime + d
  /\ fmtText = NoText

\* the call
CallFormatDuration ==
  /\ fmtText = NoText
  /\ fmtText' = FormatDuration(fmtStartTime, fmtEndTime, fmtClock)
  /\ UNCHANGED <<fmtStartTime, fmtEndTime, fmtClock, pageVars, wsVars, otherPages>>

DurationNext == CallFormatDuration

DurationSpec == DurationInit /\ [][DurationNext]_vars

\* end - start of the call
Elapsed == (IF fmtEndTime # Null THEN fmtEndTime ELSE fmtClock) - fmtStartTime

\* C23: the text returned for an elapsed time d >= 0 is "<d>ms" when d < 1000
\* and "<floor(d/1000)>.<floor((d mod 1000)/100)>s" otherwise; 950 gives
\* "950ms" and 1200 gives "1.2s" (and 0 "0ms", 999 "999ms", 1000 "1.0s", 1999
\* "1.9s").
C23_DurationText ==
  fmtText # NoText =>
    /\ Elapsed >= 0
    /\ Elapsed < 1000 => fmtText = ToString(Elapsed) \o "ms"
    /\ Elapsed >= 1000 =>
         fmtText = ToString(Elapsed \div 1000) \o "." \o
                   ToString((Elapsed % 1000) \div 100) \o "s"
    /\ Elapsed = 950 => fmtText = "950ms"
    /\ Elapsed = 1200 => fmtText = "1.2s"
    /\ Elapsed = 0 => fmtText = "0ms"
    /\ Elapsed = 999 => fmtText = "999ms"
    /\ Elapsed = 1000 => fmtText = "1.0s"
    /\ Elapsed = 1999 => fmtText = "1.9s"

\* a call without endTime read the clock 1200 ms after startTime and returned
\* "1.2s"
C23_Witness ==
  /\ fmtText = "1.2s"
  /\ fmtEndTime = Null
  /\ fmtClock - fmtStartTime = 1200

\* ----------------------------------------------------- connection progress
\* the connection state machine of the transport (websocket.ts:37-73)
ConnectionNext ==
  \/ GetInstance
  \/ \E i \in DOMAIN sockets : SocketOpen(i)
  \/ \E i \in DOMAIN sockets : SocketError(i)
  \/ \E i \in DOMAIN sockets : SocketClose(i)
  \/ ReconnectTimeout

\* a connection attempt ends: the connecting socket opens or closes
AttemptSettles ==
  \E i \in DOMAIN sockets : sockets[i] = CONNECTING /\ (SocketOpen(i) \/ SocketClose(i))

\* the browser settles every connection attempt and runs every setTimeout
\* callback that is due
FairConnectionSpec ==
  /\ TransportInit
  /\ [][ConnectionNext]_vars
  /\ WF_vars(AttemptSettles)
  /\ WF_vars(ReconnectTimeout)

\* the transport is at rest with its retries spent
GivenUp == GaveUp /\ reconnectAttempts = maxReconnectAttempts
\* every socket the model allows has been created
SocketsSpent == Len(sockets) = MaxSockets

\* C30: when every connection attempt settles and every retry timer fires, a
\* transport that exists comes to have its socket open or to have given up with
\* its retries spent (or uses up the sockets of the model); and at no time is
\* its socket closed with retries remaining and no retry scheduled.
C30_OpensOrGivesUp ==
  /\ [](instance => ws # Null)
  /\ []((instance /\ sockets[ws] = CLOSED /\ reconnectTimer = 0)
          => reconnectAttempts = maxReconnectAttempts)
  /\ (instance /\ ~IsConnected) ~> (IsConnected \/ GivenUp \/ SocketsSpent)

\* the first attempt and every retry failed, and the transport has given up
\* with its retries spent and one socket of the model unused
C30_Witness ==
  /\ GivenUp
  /\ wsLast.op = "onclose"
  /\ Len(sockets) = maxReconnectAttempts + 1
  /\ ~SocketsSpent

\* the sockets that are connecting or open
LiveSockets == {i \in DOMAIN sockets : sockets[i] \in {CONNECTING, OPEN}}

\* C31: at most one socket is connecting or open, at most one reconnect timer
\* is pending, and never both at once; the socket that is connecting or open
\* is this.ws; a close event adds at most one timer and creates no socket, an
\* error event adds no timer and creates no socket, and a socket is created
\* only by the first getInstance or by a timer that fires, one per timer.
C31_OneAttemptAtATime ==
  /\ [](/\ Cardinality(LiveSockets) + reconnectTimer <= 1
        /\ LiveSockets \subseteq {ws})
  /\ [][/\ wsLast'.op = "onclose" =>
             /\ reconnectTimer' \in {reconnectTimer, reconnectTimer + 1}
             /\ Len(sockets') = Len(sockets)
        /\ wsLast'.op = "onerror" => UNCHANGED <<sockets, ws, reconnectTimer, reconnectAttempts>>
        /\ Len(sockets') # Len(sockets) =>
             /\ Len(sockets') = Len(sockets) + 1
             /\ \/ wsLast'.op = "getInstance" /\ ~instance
                \/ wsLast'.op = "connect" /\ reconnectTimer' = reconnectTimer - 1]_vars

\* the socket of a retry opened and then closed: one timer is pending and no
\* socket is connecting or open
C31_Witness ==
  /\ wsLast.op = "onclose"
  /\ Len(sockets) >= 2
  /\ LiveSockets = {}
  /\ reconnectTimer = 1
  /\ reconnectAttempts = 1

\* C32: the entries of the message list have pairwise distinct ids.
C32_MessageIdsDistinct ==
  \A i, j \in 1..Len(messages) : messages[i].id = messages[j].id => i = j

\* ------------------------------------------------- the basic page (page.tsx)
\* handleSendMessage of the basic page up to the fetch call (page.tsx:69-93)
BasicSendMessage(text) ==
  /\ IF Trim(text) = "" \/ basicIsLoading
       THEN UNCHANGED <<basicMessages, basicIsLoading, basicError, basicInflight, basicReq>>
       ELSE /\ basicReq < MaxRequests
            /\ basicReq' = basicReq + 1
            /\ basicMessages' = Append(basicMessages,
                 [sender |-> "user", content |-> Trim(text), sessionId |-> basicSessionId])
            /\ basicIsLoading' = TRUE
            /\ basicError' = NoError
            /\ basicInflight' = basicInflight \cup
                 {[id |-> basicReq + 1, sessionId |-> basicSessionId]}
  /\ UNCHANGED <<basicSessionId, basicHandlerSessionId, basicEnv,
                 pageVars, wsVars, fmtVars, chatBoxVars>>

\* handleSendMessage of the basic page from the resolution of the fetch call to
\* its end (page.tsx:94-115)
BasicHttpResolve(req, resp) ==
  /\ req \in basicInflight
  /\ basicInflight' = basicInflight \ {req}
  /\ IF ~resp.threw /\ resp.ok /\ resp.success
       THEN /\ basicSessionId' = SessionIdAfter(basicSessionId, resp)
            /\ basicError' = basicError
       ELSE /\ basicError' = ErrorMessage(resp)
            /\ basicSessionId' = basicSessionId
  /\ basicIsLoading' = FALSE
  /\ UNCHANGED <<basicMessages, basicHandlerSessionId, basicReq, basicEnv,
                 pageVars, wsVars, fmtVars, chatBoxVars>>

\* the callback the mount effect gave to addMessageHandler (page.tsx:47-60):
\* its sessionId is the one of the render that ran the effect, and the effect
\* has no dependencies, so it is never registered again
BasicOnMessage(type, content) ==
  /\ basicEnv < MaxEnvelopes
  /\ basicEnv' = basicEnv + 1
  /\ IF type = CHAT
       THEN /\ basicMessages' = Append(basicMessages,
                 [sender |-> "ai", content |-> content, sessionId |-> basicHandlerSessionId])
            /\ basicIsLoading' = FALSE
       ELSE UNCHANGED <<basicMessages, basicIsLoading>>
  /\ UNCHANGED <<basicError, basicSessionId, basicHandlerSessionId, basicInflight, basicReq,
                 pageVars, wsVars, fmtVars, chatBoxVars>>

BasicNext ==
  \/ \E text \in Inputs : BasicSendMessage(text)
  \/ \E req \in basicInflight, resp \in Responses : BasicHttpResolve(req, resp)
  \/ \E type \in EnvelopeTypes, content \in Payloads : BasicOnMessage(type, content)

BasicSpec == Init /\ [][BasicNext]_vars

\* C34: the AI message appended for an Answer envelope carries the sessionId
\* the page holds when the envelope is handled, which is the one of the most
\* recent successful response that held one (none when there was none).
C34_AnswerTaggedWithSession ==
  [][(basicEnv' # basicEnv /\ Len(basicMessages') > Len(basicMessages)) =>
       Last(basicMessages').sessionId = basicSessionId]_vars

\* ------------------------------------------------- ChatBox (chat-box.tsx)
\* envelopes ChatBox handles in a run
MaxBoxEnvelopes == 3

\* the Message objects of chat-box.tsx:49-54 and 59-64; a content is the
\* sequence of the pieces it was concatenated from
DeepThinkingMessage(content) == [role |-> "assistant", content |-> content, type |-> "deep_thinking"]
AssistantMessage(content) == [role |-> "assistant", content |-> <<content>>, type |-> "normal"]

\* the updater given to setMessages (chat-box.tsx:44-69), run on prev for the
\* answer it closed over: it reads deepThinkingContentRef.current when it runs
ChatUpdater(prev, accumulated, answer) ==
  (IF accumulated # <<>> THEN Append(prev, DeepThinkingMessage(accumulated)) ELSE prev)
    \o <<AssistantMessage(answer)>>

\* the queued updaters run in order by a render
RECURSIVE RunUpdaters(_, _, _)
RunUpdaters(prev, accumulated, queue) ==
  IF queue = <<>> THEN prev
  ELSE RunUpdaters(ChatUpdater(prev, accumulated, Head(queue)), accumulated, Tail(queue))

\* the callback given to addMessageHandler (chat-box.tsx:41-84). React runs
\* the setMessages updater inside the call when the component has no update
\* pending, and queues it for the next render otherwise or at its discretion
BoxOnMessage(type, content) ==
  /\ boxEnv < MaxBoxEnvelopes
  /\ boxEnv' = boxEnv + 1
  /\ CASE type = CHAT ->
            /\ \/ /\ boxQueue = <<>>
                  /\ boxMessages' = ChatUpdater(boxMessages, deepThinkingContentRef, content)
                  /\ boxQueue' = boxQueue
               \/ /\ boxQueue' = Append(boxQueue, content)
                  /\ boxMessages' = boxMessages
            /\ deepThinkingContentRef' = <<>>
            /\ boxExpected' = ChatUpdater(boxExpected, boxChunks, content)
            /\ boxChunks' = <<>>
       [] type = DEEP_THINKING ->
            /\ deepThinkingContentRef' = Append(deepThinkingContentRef, content)
            /\ boxChunks' = Append(boxChunks, content)
            /\ UNCHANGED <<boxMessages, boxQueue, boxExpected>>
       [] OTHER -> UNCHANGED <<boxMessages, boxQueue, deepThinkingContentRef, boxChunks,
                               boxExpected>>
  /\ UNCHANGED <<pageVars, wsVars, fmtVars, basicVars>>

\* a render of ChatBox: the queued updaters run
BoxRender ==
  /\ boxQueue # <<>>
  /\ boxMessages' = RunUpdaters(boxMessages, deepThinkingContentRef, boxQueue)
  /\ boxQueue' = <<>>
  /\ UNCHANGED <<deepThinkingContentRef, boxChunks, boxExpected, boxEnv,
                 pageVars, wsVars, fmtVars, basicVars>>

ChatBoxNext ==
  \/ \E type \in EnvelopeTypes, content \in Payloads : BoxOnMessage(type, content)
  \/ BoxRender

ChatBoxSpec == Init /\ [][ChatBoxNext]_vars

\* C33: once the updaters of the answers handled so far have run, the message
\* list holds, for each answer in order, a deep_thinking message with the
\* chunks received before it (when there were any) followed at once by the
\* answer; and after an answer the accumulator is empty.
C33_DeepThinkingBeforeAnswer ==
  /\ boxQueue = <<>> => boxMessages = boxExpected
  /\ boxChunks = <<>> => deepThinkingContentRef = <<>>
====
